---- MODULE Spec2Model ----
(***************************************************************************)
(* The plugin host of OpenRCT2 (src/openrct2/scripting/ScriptEngine.cpp):  *)
(* plugin registry and lifecycle, hook subscriptions, hot reload and the   *)
(* REPL queue.  Every public operation of ScriptEngine is one action; the  *)
(* statements of an operation run in sequence on a record of the engine's  *)
(* fields (Cur), and the result is committed at the end of the action.     *)
(*                                                                         *)
(* Plugin, HookEngine and ScriptExecutionInfo are defined in other files   *)
(* of the repository; the operators named Plugin_... and HookEngine_...    *)
(* follow the design document.                                             *)
(*                                                                         *)
(* `trace' is the sequence of observable events of the most recent         *)
(* operation: entries into plugin code, hook-engine calls, observer        *)
(* notifications, console lines and promise completions, in program order. *)
(* The console is append-only and the engine never reads it back, so the   *)
(* lines of earlier operations are not kept.                               *)
(***************************************************************************)
EXTENDS Integers, Sequences, FiniteSets, TLC

\* ------------------------------------------------------------------ bounds
MaxPluginObjects == 2   \* Plugin objects ever constructed
MaxQueue == 2           \* pending REPL snippets
MaxNotifications == 2   \* change notifications for one path between two reloads
MaxFiles == 3           \* files the scanner finds in the plugin directory
MaxHooks == 3           \* subscriptions held when another file change may be reported

\* ------------------------------------------------------- program constants
OPENRCT2_PLUGIN_API_VERSION == 1
HotReloadInterval == 1000

\* a 32-bit unsigned integer, held as two 16-bit limbs
Word == 65536
U32(hi, lo) == [hi |-> hi, lo |-> lo]

\* a - b in 32-bit unsigned arithmetic: the difference modulo 2^32
Sub32(a, b) ==
    LET borrow == IF a.lo < b.lo THEN 1 ELSE 0
    IN  U32((a.hi - b.hi - borrow + Word) % Word, (a.lo - b.lo + Word) % Word)

\* a > b on 32-bit unsigned integers
Greater32(a, b) == a.hi > b.hi \/ (a.hi = b.hi /\ a.lo > b.lo)

\* the value of the execution scope when no plugin is executing
NoPlugin == 0

\* ------------------------------------------------------------ plugin files
Paths == {"a.js", "b.js"}

\* The plugin directory on a system with forward slashes, and on Windows:
\* plugin files, a file of a package installed below the directory, one
\* nested deeper, and a file whose directory has node_modules as a part of its
\* name.
SlashFiles ==
    {"a.js", "b.js", "node_modules/c.js", "lib/node_modules/pkg/d.js",
     "my_node_modules/e.js"}
BackslashFiles == {"w.js", "node_modules\\x.js"}

\* a path as the scanner returns it: the directory separators and the names
\* between them
Characters ==
    [p \in SlashFiles \cup BackslashFiles |->
        CASE p = "a.js" -> <<"/", "plugin", "/", "a.js">>
          [] p = "b.js" -> <<"/", "plugin", "/", "b.js">>
          [] p = "node_modules/c.js" -> <<"/", "plugin", "/", "node_modules", "/", "c.js">>
          [] p = "lib/node_modules/pkg/d.js" ->
                <<"/", "plugin", "/", "lib", "/", "node_modules", "/", "pkg", "/", "d.js">>
          [] p = "my_node_modules/e.js" -> <<"/", "plugin", "/", "my_node_modules", "/", "e.js">>
          [] p = "w.js" -> <<"C:", "\\", "plugin", "\\", "w.js">>
          [] p = "node_modules\\x.js" ->
                <<"C:", "\\", "plugin", "\\", "node_modules", "\\", "x.js">>]

\* What a plugin file declares and does: its metadata (name, minimum API
\* version), whether its top-level code / main function / stop handler throw,
\* and the events its main function subscribes to before it returns or throws.
Script(name, minApi, loadThrows, startThrows, stopThrows, hooks) ==
    [name |-> name, minApi |-> minApi, loadThrows |-> loadThrows,
     startThrows |-> startThrows, stopThrows |-> stopThrows, hooks |-> hooks]

Good     == Script("good", 1, FALSE, FALSE, FALSE, <<"tick">>)
NewApi   == Script("newapi", 2, FALSE, FALSE, FALSE, <<"tick">>)
BadLoad  == Script("badload", 1, TRUE, FALSE, FALSE, <<>>)
BadStart == Script("badstart", 1, FALSE, TRUE, FALSE, <<>>)
BadStop  == Script("badstop", 1, FALSE, FALSE, TRUE, <<"tick">>)

Scripts == {Good, NewApi, BadLoad, BadStart, BadStop}

\* a plugin whose main function subscribes to an event and then throws
HalfStart == Script("halfstart", 1, FALSE, TRUE, FALSE, <<"tick">>)

\* metadata of a Plugin object whose Load has not completed
NoScript == Script("", 0, FALSE, FALSE, FALSE, <<>>)

\* ------------------------------------------------------------ REPL snippets
Commands == {"1+1", "({})", "void 0", "throw 1"}

\* duk_peval_string followed by the type test and Stringify of ProcessREPL
EvalError(command) == command = "throw 1"
EvalUndefined(command) == command = "void 0"
EvalIsObject(command) == command = "({})"

Stringify(command) ==
    IF EvalIsObject(command) THEN "{}"      \* duk_json_encode
    ELSE IF command = "1+1" THEN "2"        \* duk_safe_to_string
    ELSE "undefined"

ErrorString(command) == "Error: 1"

\* the threads other than the simulation thread that call Eval
Threads == {"console", "network"}

\* a thread that is not inside Eval
Idle == [pc |-> "idle", command |-> "", promise |-> 0, pos |-> 0]

\* the simulation thread outside AutoReloadPlugins
NotReloading == [pc |-> "idle", todo |-> <<>>, iterated |-> {}, attempted |-> {}]

\* the watcher thread outside the OnFileChanged callback
NotWatching == [pc |-> "idle", path |-> ""]

VARIABLES
    _plugins,               \* the registry: sequence of Plugin objects
    nextPluginId,           \* identity of the next Plugin object constructed
    rejected,               \* identities of the Plugin objects rejected for their version
    hooks,                  \* _hookEngine: sequence of subscriptions (owner, event)
    _execInfo,              \* identity of the plugin whose code executes, or NoPlugin
    _initialised,
    _pluginsLoaded,
    _pluginsStarted,
    _pluginFileWatcher,     \* TRUE when the file watcher has been set up
    _changedPluginFiles,    \* set of changed paths
    notified,               \* per path, the notifications received since the set was cleared
    _changedPluginFilesMutex,   \* the thread that holds the mutex, or "free"
    reloadCall,             \* where the simulation thread is in AutoReloadPlugins
    watcherCall,            \* where the watcher thread is in the OnFileChanged callback
    replCall,               \* where the simulation thread is in ProcessREPL
    now,                    \* what Platform::GetTicks() returns
    _lastHotReloadCheckTick,
    _evalQueue,             \* sequence of (promise, command)
    evalThreads,            \* per producer thread: where it is in Eval, and its locals
    escaped,                \* TRUE when the last operation let an exception out
    userScripts,            \* the scripts the user may put into the plugin directory
    trace,                  \* events of the last operation
    lastOp                  \* the last operation and its argument

vars == <<_plugins, nextPluginId, rejected, hooks, _execInfo,
          _initialised, _pluginsLoaded, _pluginsStarted,
          _pluginFileWatcher, _changedPluginFiles, notified,
          _changedPluginFilesMutex, reloadCall, watcherCall,
          replCall, now, _lastHotReloadCheckTick, _evalQueue, evalThreads,
          escaped, userScripts, trace, lastOp>>

\* ------------------------------------------------------------------ events
Ev(op, plugin, scope, who, msg, n) ==
    [op |-> op, plugin |-> plugin, scope |-> scope, who |-> who, msg |-> msg, n |-> n]

Emit(s, e) == [s EXCEPT !.trace = Append(@, e)]

\* InteractiveConsole::WriteLine / WriteLineError
WriteLine(s, who, msg, n) == Emit(s, Ev("WriteLine", NoPlugin, s.exec, who, msg, n))
WriteLineError(s, who, msg) == Emit(s, Ev("WriteLineError", NoPlugin, s.exec, who, msg, 0))

IsConsoleLine(e) == e.op \in {"WriteLine", "WriteLineError"}
IsPluginCall(e) == e.op \in {"Load", "Start", "Stop", "Event"}

LogPluginInfo(s, plugin, msg, n) == WriteLine(s, plugin.script.name, msg, n)

\* the engine's fields as one record
\* the simulation thread outside ProcessREPL; queued is the size of the queue
\* when the last call began and evaluated the number of snippets it evaluated
NotDraining == [pc |-> "idle", queued |-> 0, evaluated |-> 0]

Cur ==
    [disk |-> <<>>, scan |-> <<>>, plugins |-> _plugins, nextId |-> nextPluginId,
     rejected |-> rejected, hooks |-> hooks, exec |-> _execInfo,
     initialised |-> _initialised, loaded |-> _pluginsLoaded,
     started |-> _pluginsStarted,
     watcher |-> _pluginFileWatcher, changed |-> _changedPluginFiles,
     notified |-> notified,
     mutex |-> _changedPluginFilesMutex, reload |-> reloadCall, watching |-> watcherCall,
     tick |-> now, lastCheck |-> _lastHotReloadCheckTick, drain |-> replCall,
     queue |-> _evalQueue, threads |-> evalThreads, escaped |-> FALSE, trace |-> <<>>]

Commit(s, op) ==
    /\ _plugins' = s.plugins
    /\ nextPluginId' = s.nextId
    /\ rejected' = s.rejected
    /\ hooks' = s.hooks
    /\ _execInfo' = s.exec
    /\ _initialised' = s.initialised
    /\ _pluginsLoaded' = s.loaded
    /\ _pluginsStarted' = s.started
    /\ _pluginFileWatcher' = s.watcher
    /\ _changedPluginFiles' = s.changed
    /\ notified' = s.notified
    /\ _changedPluginFilesMutex' = s.mutex
    /\ reloadCall' = s.reload
    /\ watcherCall' = s.watching
    /\ now' = s.tick
    /\ replCall' = s.drain
    /\ _lastHotReloadCheckTick' = s.lastCheck
    /\ _evalQueue' = s.queue
    /\ evalThreads' = s.threads
    /\ escaped' = s.escaped
    /\ userScripts' = userScripts
    /\ trace' = s.trace
    /\ lastOp' = op

\* sequential composition: the statement F runs on the state that s has produced
Then(s, F(_)) == CHOOSE r \in {F(v) : v \in {s}} : TRUE

\* ------------------------------------------------------------------ Plugin
\* A call into plugin code returns the engine record, the Plugin object and
\* whether the call threw.
Ret(s, p, threw) == [s |-> s, p |-> p, threw |-> threw]

\* a std::exception leaves plugin code
Throw(s, p) == Emit(s, Ev("Threw", p.id, s.exec, "", "", 0))

SubscriptionsOf(hs, id) == SelectSeq(hs, LAMBDA h : h.owner = id)

\* Plugin::Load: execute the file's top-level code, which registers the metadata
Plugin_Load(s, p) ==
    LET src == s.disk[p.path]
        s1 == Emit(s, Ev("Load", p.id, s.exec, "", "",
                         IF src.loadThrows THEN 0 ELSE src.minApi))
    IN  IF src.loadThrows
        THEN Ret(Throw(s1, p), p, TRUE)
        ELSE Ret(s1, [p EXCEPT !.script = src], FALSE)

RECURSIVE SubscribeEach(_, _, _)
\* context.subscribe, once per event: the subscription is attributed to the
\* plugin named by the execution scope
SubscribeEach(s, events, i) ==
    IF i > Len(events) THEN s
    ELSE SubscribeEach(
            [s EXCEPT !.hooks = Append(@, [owner |-> s.exec, event |-> events[i]])],
            events, i + 1)

\* Plugin::Start with the flag set before the main function runs
Plugin_Start_FlagFirst(s, p) ==
    LET s1 == Emit(s, Ev("Start", p.id, s.exec, "", "", 0))
        s2 == SubscribeEach(s1, p.script.hooks, 1)
        q == [p EXCEPT !.hasStarted = TRUE]
    IN  IF p.script.startThrows
        THEN Ret(Throw(s2, p), q, TRUE)
        ELSE Ret(s2, q, FALSE)

\* Plugin::Start: run the main function; a throwing Start leaves the plugin Loaded
Plugin_Start(s, p) ==
    LET s1 == Emit(s, Ev("Start", p.id, s.exec, "", "", 0))
        s2 == SubscribeEach(s1, p.script.hooks, 1)
    IN  IF p.script.startThrows
        THEN Ret(Throw(s2, p), p, TRUE)
        ELSE Ret(s2, [p EXCEPT !.hasStarted = TRUE], FALSE)

\* Plugin::Stop; the event records how many subscriptions the plugin holds
\* when it is entered
Plugin_Stop(s, p) ==
    LET s1 == Emit(s, Ev("Stop", p.id, s.exec, "", "", Len(SubscriptionsOf(s.hooks, p.id))))
    IN  IF p.script.stopThrows
        THEN Ret(Throw(s1, p), p, TRUE)
        ELSE Ret(s1, [p EXCEPT !.hasStarted = FALSE], FALSE)

HasStarted(p) == p.hasStarted

\* e.what() of an exception thrown by a plugin call
What(p) == "exception"

\* -------------------------------------------------------------- HookEngine
\* HookEngine::UnsubscribeAll; the event records how many subscriptions it removed
HookEngine_UnsubscribeAll(s, p) ==
    LET s1 == Emit(s, Ev("UnsubscribeAll", p.id, s.exec, "", "", Len(SubscriptionsOf(s.hooks, p.id))))
    IN  [s1 EXCEPT !.hooks = SelectSeq(@, LAMBDA h : h.owner # p.id)]

\* --------------------------------------------------------------- ScriptEngine
\* LoadPlugin with push_back outside the version test
LoadPlugin_PushAlways(s, path) ==
    LET plugin == [id |-> s.nextId, path |-> path, script |-> NoScript, hasStarted |-> FALSE]
        s0 == [s EXCEPT !.nextId = @ + 1]
        prev == s0.exec
        r == Plugin_Load([s0 EXCEPT !.exec = plugin.id], plugin)
    IN  IF r.threw
        THEN WriteLineError([r.s EXCEPT !.exec = prev], r.p.script.name, What(r.p))
        ELSE IF r.p.script.minApi <= OPENRCT2_PLUGIN_API_VERSION
        THEN LET s1 == LogPluginInfo(r.s, r.p, "Loaded", 0)
             IN  [s1 EXCEPT !.plugins = Append(@, r.p), !.exec = prev]
        ELSE LET s1 == LogPluginInfo(r.s, r.p, "Requires newer API version: v", r.p.script.minApi)
             IN  [s1 EXCEPT !.plugins = Append(@, r.p), !.rejected = @ \cup {r.p.id}, !.exec = prev]

\* LoadPlugin with the plugin registered before its Load runs
LoadPlugin_RegisterFirst(s, path) ==
    LET plugin == [id |-> s.nextId, path |-> path, script |-> NoScript, hasStarted |-> FALSE]
        s0 == [s EXCEPT !.nextId = @ + 1, !.plugins = Append(@, plugin)]
        prev == s0.exec
        r == Plugin_Load([s0 EXCEPT !.exec = plugin.id], plugin)
        n == Len(s0.plugins)
    IN  IF r.threw
        THEN WriteLineError([r.s EXCEPT !.exec = prev], r.p.script.name, What(r.p))
        ELSE IF r.p.script.minApi <= OPENRCT2_PLUGIN_API_VERSION
        THEN LET s1 == LogPluginInfo(r.s, r.p, "Loaded", 0)
             IN  [s1 EXCEPT !.plugins[n] = r.p, !.exec = prev]
        ELSE LET s1 == LogPluginInfo(r.s, r.p, "Requires newer API version: v", r.p.script.minApi)
             IN  [s1 EXCEPT !.plugins = SubSeq(@, 1, n - 1), !.rejected = @ \cup {r.p.id}, !.exec = prev]

\* ScriptEngine::LoadPlugin
LoadPlugin(s, path) ==
    LET plugin == [id |-> s.nextId, path |-> path, script |-> NoScript, hasStarted |-> FALSE]
        s0 == [s EXCEPT !.nextId = @ + 1]
        prev == s0.exec
        r == Plugin_Load([s0 EXCEPT !.exec = plugin.id], plugin)
    IN  IF r.threw
        THEN WriteLineError([r.s EXCEPT !.exec = prev], r.p.script.name, What(r.p))
        ELSE IF r.p.script.minApi <= OPENRCT2_PLUGIN_API_VERSION
        THEN LET s1 == LogPluginInfo(r.s, r.p, "Loaded", 0)
             IN  [s1 EXCEPT !.plugins = Append(@, r.p), !.exec = prev]
        ELSE LET s1 == LogPluginInfo(r.s, r.p, "Requires newer API version: v", r.p.script.minApi)
             IN  [s1 EXCEPT !.rejected = @ \cup {r.p.id}, !.exec = prev]

\* the observers registered for "plugin stopped"
_pluginStoppedSubscriptions == <<"observer">>

RECURSIVE NotifyStopped(_, _, _)
\* for (auto callback : _pluginStoppedSubscriptions) callback(plugin);
NotifyStopped(s, plugin, k) ==
    IF k > Len(_pluginStoppedSubscriptions) THEN s
    ELSE NotifyStopped(
            Emit(s, Ev("PluginStopped", plugin.id, s.exec, _pluginStoppedSubscriptions[k], "",
                       Len(SubscriptionsOf(s.hooks, plugin.id)))),
            plugin, k + 1)

\* StopPlugin without the call of UnsubscribeAll
StopPlugin_NoUnsubscribe(s, i) ==
    LET plugin == s.plugins[i]
    IN  IF HasStarted(plugin)
        THEN LET s2 == NotifyStopped(s, plugin, 1)
                 prev == s2.exec
                 r == Plugin_Stop([s2 EXCEPT !.exec = plugin.id], plugin)
                 s3 == [r.s EXCEPT !.plugins[i] = r.p]
                 s4 == IF r.threw THEN WriteLineError(s3, r.p.script.name, What(r.p)) ELSE s3
             IN  [s4 EXCEPT !.exec = prev]
        ELSE s

\* StopPlugin that unsubscribes after the plugin's Stop has run
StopPlugin_StopFirst(s, i) ==
    LET plugin == s.plugins[i]
    IN  IF HasStarted(plugin)
        THEN LET s2 == NotifyStopped(s, plugin, 1)
                 prev == s2.exec
                 r == Plugin_Stop([s2 EXCEPT !.exec = plugin.id], plugin)
                 s3 == [r.s EXCEPT !.plugins[i] = r.p]
                 s4 == IF r.threw THEN WriteLineError(s3, r.p.script.name, What(r.p)) ELSE s3
             IN  HookEngine_UnsubscribeAll([s4 EXCEPT !.exec = prev], plugin)
        ELSE s

\* StopPlugin without the HasStarted test
StopPlugin_NoGuard(s, i) ==
    LET plugin == s.plugins[i]
        s1 == HookEngine_UnsubscribeAll(s, plugin)
        s2 == NotifyStopped(s1, plugin, 1)
        prev == s2.exec
        r == Plugin_Stop([s2 EXCEPT !.exec = plugin.id], plugin)
        s3 == [r.s EXCEPT !.plugins[i] = r.p]
        s4 == IF r.threw THEN WriteLineError(s3, r.p.script.name, What(r.p)) ELSE s3
    IN  [s4 EXCEPT !.exec = prev]

\* ScriptEngine::StopPlugin, on the plugin at position i of the registry
StopPlugin(s, i) ==
    LET plugin == s.plugins[i]
    IN  IF HasStarted(plugin)
        THEN LET s1 == HookEngine_UnsubscribeAll(s, plugin)
                 s2 == NotifyStopped(s1, plugin, 1)
                 prev == s2.exec
                 r == Plugin_Stop([s2 EXCEPT !.exec = plugin.id], plugin)
                 s3 == [r.s EXCEPT !.plugins[i] = r.p]
                 s4 == IF r.threw THEN WriteLineError(s3, r.p.script.name, What(r.p)) ELSE s3
             IN  [s4 EXCEPT !.exec = prev]
        ELSE s

\* the loop body of StartPlugins without its try/catch: the exception leaves
StartOne_NoCatch(s, i) ==
    LET plugin == s.plugins[i]
    IN  IF ~HasStarted(plugin)
        THEN LET prev == s.exec
                 r == Plugin_Start([s EXCEPT !.exec = plugin.id], plugin)
                 s1 == [r.s EXCEPT !.plugins[i] = r.p]
             IN  [s1 EXCEPT !.exec = prev, !.escaped = r.threw]
        ELSE s

\* the body of the loop of StartPlugins, for the plugin at position i
StartOne(s, i) ==
    LET plugin == s.plugins[i]
    IN  IF ~HasStarted(plugin)
        THEN LET prev == s.exec
                 r == Plugin_Start([s EXCEPT !.exec = plugin.id], plugin)
                 s1 == [r.s EXCEPT !.plugins[i] = r.p]
                 s2 == IF r.threw THEN WriteLineError(s1, r.p.script.name, What(r.p)) ELSE s1
             IN  [s2 EXCEPT !.exec = prev]
        ELSE s

RECURSIVE StartUntilThrow(_, _)
StartUntilThrow(s, i) ==
    IF i > Len(s.plugins) THEN s
    ELSE LET plugin == s.plugins[i]
             prev == s.exec
             r == Plugin_Start([s EXCEPT !.exec = plugin.id], plugin)
             s1 == [r.s EXCEPT !.plugins[i] = r.p, !.exec = prev]
         IN  IF HasStarted(plugin) THEN StartUntilThrow(s, i + 1)
             ELSE IF r.threw THEN WriteLineError(s1, r.p.script.name, What(r.p))
             ELSE StartUntilThrow(s1, i + 1)

\* StartPlugins with the try/catch around the loop instead of inside it
StartPlugins_CatchOutside(s) == [StartUntilThrow(s, 1) EXCEPT !.started = TRUE]

RECURSIVE StartFrom(_, _)
StartFrom(s, i) ==
    IF i > Len(s.plugins) \/ s.escaped THEN s
    ELSE Then(StartOne(s, i), LAMBDA v : StartFrom(v, i + 1))

\* ScriptEngine::StartPlugins
StartPlugins(s) ==
    Then(StartFrom(s, 1), LAMBDA s1 : IF s1.escaped THEN s1 ELSE [s1 EXCEPT !.started = TRUE])

RECURSIVE StopFrom(_, _)
StopFrom(s, i) ==
    IF i > Len(s.plugins) \/ s.escaped THEN s
    ELSE Then(StopPlugin(s, i), LAMBDA v : StopFrom(v, i + 1))

\* ScriptEngine::StopPlugins
StopPlugins(s) ==
    LET s1 == StopFrom(s, 1)
    IN  IF s1.escaped THEN s1 ELSE [s1 EXCEPT !.started = FALSE]

RECURSIVE LogUnloaded(_, _)
LogUnloaded(s, i) ==
    IF i > Len(s.plugins) THEN s
    ELSE LogUnloaded(LogPluginInfo(s, s.plugins[i], "Unloaded", 0), i + 1)

\* UnloadPlugins without its call of StopPlugins
UnloadPlugins_NoStop(s) ==
    [LogUnloaded(s, 1) EXCEPT !.plugins = <<>>, !.loaded = FALSE, !.started = FALSE]

\* ScriptEngine::UnloadPlugins
UnloadPlugins(s) ==
    LET s1 == StopPlugins(s)
    IN  IF s1.escaped THEN s1
        ELSE [LogUnloaded(s1, 1) EXCEPT !.plugins = <<>>, !.loaded = FALSE, !.started = FALSE]

\* std::find_if over _plugins with Path::Equals: the first position whose
\* plugin has this path, or 0
FindPlugin(plugins, path) ==
    LET hits == {i \in 1..Len(plugins) : plugins[i].path = path}
    IN  IF hits = {} THEN 0 ELSE CHOOSE i \in hits : \A j \in hits : i <= j

\* the try block of AutoReloadPlugins with a scope that is set and reset by
\* hand, the reset being skipped by an exception
ReloadOne_ScopeKeptOnThrow(s, i) ==
    LET s1 == StopPlugin(s, i)
        plugin == s1.plugins[i]
        prev == s1.exec
        rl == Plugin_Load([s1 EXCEPT !.exec = plugin.id], plugin)
        s2 == LogPluginInfo([rl.s EXCEPT !.plugins[i] = rl.p], rl.p, "Reloaded", 0)
        rs == Plugin_Start(s2, rl.p)
        s3 == [rs.s EXCEPT !.plugins[i] = rs.p]
    IN  IF s1.escaped
        THEN WriteLineError([s1 EXCEPT !.escaped = FALSE], plugin.script.name, What(plugin))
        ELSE IF rl.threw
        THEN WriteLineError(rl.s, plugin.script.name, What(plugin))
        ELSE IF rs.threw
        THEN WriteLineError(s3, plugin.script.name, What(plugin))
        ELSE [s3 EXCEPT !.exec = prev]

\* the try block of AutoReloadPlugins for the plugin at position i
\* the try block of AutoReloadPlugins with the exception of Load caught before
\* Start is called
ReloadOne_StartAfterFailedLoad(s, i) ==
    LET s1 == StopPlugin(s, i)
        plugin == s1.plugins[i]
        prev == s1.exec
        rl == Plugin_Load([s1 EXCEPT !.exec = plugin.id], plugin)
        s2 == IF rl.threw
              THEN WriteLineError(rl.s, plugin.script.name, What(plugin))
              ELSE LogPluginInfo([rl.s EXCEPT !.plugins[i] = rl.p], rl.p, "Reloaded", 0)
        rs == Plugin_Start(s2, rl.p)
        s3 == [rs.s EXCEPT !.plugins[i] = rs.p]
    IN  IF s1.escaped
        THEN WriteLineError([s1 EXCEPT !.escaped = FALSE], plugin.script.name, What(plugin))
        ELSE IF rs.threw
        THEN WriteLineError([s3 EXCEPT !.exec = prev], plugin.script.name, What(plugin))
        ELSE [s3 EXCEPT !.exec = prev]

ReloadOne(s, i) ==
    LET s1 == StopPlugin(s, i)
        plugin == s1.plugins[i]
        prev == s1.exec
        rl == Plugin_Load([s1 EXCEPT !.exec = plugin.id], plugin)
        s2 == LogPluginInfo([rl.s EXCEPT !.plugins[i] = rl.p], rl.p, "Reloaded", 0)
        rs == Plugin_Start(s2, rl.p)
        s3 == [rs.s EXCEPT !.plugins[i] = rs.p]
    IN  IF s1.escaped
        THEN WriteLineError([s1 EXCEPT !.escaped = FALSE], plugin.script.name, What(plugin))
        ELSE IF rl.threw
        THEN WriteLineError([rl.s EXCEPT !.exec = prev], plugin.script.name, What(plugin))
        ELSE IF rs.threw
        THEN WriteLineError([s3 EXCEPT !.exec = prev], plugin.script.name, What(plugin))
        ELSE [s3 EXCEPT !.exec = prev]

RECURSIVE ReloadEach_AbortOnFailure(_, _, _)
\* the loop of AutoReloadPlugins with one try block around the whole loop
ReloadEach_AbortOnFailure(s, order, k) ==
    IF k > Len(order) THEN s
    ELSE LET i == FindPlugin(s.plugins, order[k])
             s1 == Emit(s, Ev("ChangedPath", NoPlugin, s.exec, order[k], "", s.notified[order[k]]))
         IN  Then(IF i # 0 THEN ReloadOne(s1, i) ELSE s1,
                  LAMBDA v : IF v.trace[Len(v.trace)].op = "WriteLineError"
                             THEN v
                             ELSE ReloadEach_AbortOnFailure(v, order, k + 1))

RECURSIVE ReloadEach_DropsFailed(_, _, _)
\* the loop of AutoReloadPlugins erasing from the registry a plugin whose
\* reload failed
ReloadEach_DropsFailed(s, order, k) ==
    IF k > Len(order) THEN s
    ELSE LET i == FindPlugin(s.plugins, order[k])
             s1 == Emit(s, Ev("ChangedPath", NoPlugin, s.exec, order[k], "", s.notified[order[k]]))
         IN  Then(IF i # 0 THEN ReloadOne(s1, i) ELSE s1,
                  LAMBDA v : ReloadEach_DropsFailed(
                                IF i # 0 /\ v.trace[Len(v.trace)].op = "WriteLineError"
                                THEN [v EXCEPT !.plugins = SubSeq(@, 1, i - 1) \o SubSeq(@, i + 1, Len(@))]
                                ELSE v,
                                order, k + 1))

RECURSIVE ReloadEach(_, _, _)
\* for (auto& path : _changedPluginFiles), in the set's iteration order; the
\* event records the path taken from the set and how many notifications had
\* named it
ReloadEach(s, order, k) ==
    IF k > Len(order) THEN s
    ELSE LET i == FindPlugin(s.plugins, order[k])
             s1 == Emit(s, Ev("ChangedPath", NoPlugin, s.exec, order[k], "", s.notified[order[k]]))
         IN  Then(IF i # 0 THEN ReloadOne(s1, i) ELSE s1, LAMBDA v : ReloadEach(v, order, k + 1))

RECURSIVE ReloadTimes(_, _, _)
ReloadTimes(s, i, n) ==
    IF n = 0 THEN s ELSE Then(ReloadOne(s, i), LAMBDA v : ReloadTimes(v, i, n - 1))

RECURSIVE ReloadEachNotification(_, _, _)
ReloadEachNotification(s, order, k) ==
    IF k > Len(order) THEN s
    ELSE LET i == FindPlugin(s.plugins, order[k])
             s1 == Emit(s, Ev("ChangedPath", NoPlugin, s.exec, order[k], "", s.notified[order[k]]))
         IN  Then(IF i # 0 THEN ReloadTimes(s1, i, s.notified[order[k]]) ELSE s1,
                  LAMBDA v : ReloadEachNotification(v, order, k + 1))

\* AutoReloadPlugins over a container that keeps every notification
AutoReloadPlugins_PerNotification(s, order) ==
    IF Cardinality(s.changed) > 0
    THEN [ReloadEachNotification(s, order, 1) EXCEPT !.changed = {}, !.notified = [p \in Paths |-> 0]]
    ELSE s

\* ScriptEngine::AutoReloadPlugins; order is the iteration order of the set
AutoReloadPlugins(s, order) ==
    IF Cardinality(s.changed) > 0
    THEN [ReloadEach(s, order, 1) EXCEPT !.changed = {}, !.notified = [p \in Paths |-> 0]]
    ELSE s

\* std::lock_guard that does not lock
lock_guard_None(thread) == "free"

\* std::lock_guard<std::mutex> guard(_changedPluginFilesMutex): the holder of
\* the mutex once the guard is constructed
lock_guard(thread) == thread

\* the end of the guard's scope
Unlock(s, thread) == [s EXCEPT !.mutex = IF @ = thread THEN "free" ELSE @]

\* an access of thread to _changedPluginFiles; the event records the holder
\* of the mutex at that moment
Access(s, op, thread, n) == Emit(s, Ev(op, NoPlugin, s.exec, s.mutex, thread, n))

\* what _changedPluginFiles.size() can return: the size of the set, or, when
\* the watcher thread is inside emplace, the size with the path inserted
SizeOutcomes(s) ==
    {Cardinality(s.changed)}
    \cup IF s.watching.pc = "inserting"
         THEN {Cardinality(s.changed \cup {s.watching.path})}
         ELSE {}

\* AutoReloadPlugins, line 189: the test of the size, which read seen
AutoReload_Size(s, seen) ==
    LET s1 == Access(s, "size", "simulation", seen)
    IN  IF seen > 0 THEN [s1 EXCEPT !.reload.pc = "lock"] ELSE s1

\* AutoReloadPlugins, lines 191-192: the guard is constructed and the loop
\* begins; order is the iteration order of the set
AutoReload_Lock(s, order) ==
    [s EXCEPT !.mutex = lock_guard("simulation"),
              !.reload = [pc |-> "loop", todo |-> order, iterated |-> {}, attempted |-> {}]]

\* AutoReloadPlugins, lines 192-214: one iteration of the loop
AutoReload_Next(s) ==
    LET path == Head(s.reload.todo)
    IN  Then(ReloadEach(Access(s, "iterate", "simulation", 0), <<path>>, 1),
             LAMBDA s2 :
                LET tried == FindPlugin(s.plugins, path) = 0
                             \/ \E k \in 1..Len(s2.trace) : s2.trace[k].op = "Load"
                IN  [s2 EXCEPT !.reload.todo = Tail(@),
                               !.reload.iterated = @ \cup {path},
                               !.reload.attempted = IF tried THEN @ \cup {path} ELSE @])

\* AutoReloadPlugins, lines 215-216: clear() and the end of the guard's scope
AutoReload_Clear(s) ==
    LET s1 == Access(s, "clear", "simulation", Cardinality(s.changed))
    IN  Unlock([s1 EXCEPT !.changed = {}, !.notified = [p \in Paths |-> 0],
                          !.reload = NotReloading],
               "simulation")

\* ScriptEngine::Initialise
Initialise(s) ==
    [Emit(s, Ev("RegisterGlobals", NoPlugin, s.exec, "", "", 0))
        EXCEPT !.initialised = TRUE, !.loaded = FALSE, !.started = FALSE]

\* std::string::find(pat) != npos, on a string given as its directory
\* separators and the names between them
Contains(str, pat) ==
    \E k \in 1..(Len(str) - Len(pat) + 1) : SubSeq(str, k, k + Len(pat) - 1) = pat

\* ShouldLoadScript with the test for the forward slash only
ShouldLoadScript_SlashOnly(path) ==
    ~Contains(Characters[path], <<"/", "node_modules", "/">>)

\* ScriptEngine::ShouldLoadScript
ShouldLoadScript(path) ==
    /\ ~Contains(Characters[path], <<"/", "node_modules", "/">>)
    /\ ~Contains(Characters[path], <<"\\", "node_modules", "\\">>)

\* Path::ScanDirectory(base/*.js, recurse): the files in discovery order
ScanDirectory(s) == s.scan

RECURSIVE LoadEach(_, _, _)
\* while (scanner->Next()); the event records the path the scanner returned
LoadEach(s, files, k) ==
    IF k > Len(files) THEN s
    ELSE LET s1 == Emit(s, Ev("ScanNext", NoPlugin, s.exec, files[k], "", 0))
         IN  LoadEach(IF ShouldLoadScript(files[k]) THEN LoadPlugin(s1, files[k]) ELSE s1,
                      files, k + 1)

\* ScriptEngine::SetupHotReloading; fails: the FileWatcher constructor throws
SetupHotReloading(s, fails) ==
    IF fails
    THEN Emit(s, Ev("printf", NoPlugin, s.exec, "", "Unable to enable hot reloading of plugins", 0))
    ELSE [s EXCEPT !.watcher = TRUE]

\* LoadPlugins with the loaded flag set inside the test for the directory
LoadPlugins_LoadedInsideIf(s, dirExists, hotReload, watcherFails) ==
    LET s1 == IF ~s.initialised THEN Initialise(s) ELSE s
    IN  IF dirExists
        THEN LET s3 == LoadEach(s1, ScanDirectory(s1), 1)
                 s4 == IF hotReload THEN SetupHotReloading(s3, watcherFails) ELSE s3
             IN  [s4 EXCEPT !.loaded = TRUE]
        ELSE s1

\* ScriptEngine::LoadPlugins; the inputs are what the environment answers:
\* whether the plugin directory exists, gConfigPlugin.enable_hot_reloading,
\* and whether the file watcher can be created
LoadPlugins(s, dirExists, hotReload, watcherFails) ==
    LET s1 == IF ~s.initialised THEN Initialise(s) ELSE s
        s2 == IF dirExists
              THEN LET s3 == LoadEach(s1, ScanDirectory(s1), 1)
                   IN  IF hotReload THEN SetupHotReloading(s3, watcherFails) ELSE s3
              ELSE s1
    IN  [s2 EXCEPT !.loaded = TRUE]

RECURSIVE ProcessREPL_Lifo(_)
\* ProcessREPL taking the newest item first
ProcessREPL_Lifo(s) ==
    IF Len(s.queue) > 0
    THEN LET item == s.queue[Len(s.queue)]
             s1 == [s EXCEPT !.queue = SubSeq(@, 1, Len(@) - 1)]
             s2 == IF EvalError(item.command)
                   THEN WriteLineError(s1, item.command, ErrorString(item.command))
                   ELSE IF ~EvalUndefined(item.command)
                   THEN WriteLine(s1, item.command, Stringify(item.command), 0)
                   ELSE s1
         IN  Then(Emit(s2, Ev("set_value", NoPlugin, s2.exec, item.command, "", item.promise)),
                  ProcessREPL_Lifo)
    ELSE s

RECURSIVE ProcessREPL_StopOnError(_)
\* ProcessREPL that gives up the drain when a snippet fails
ProcessREPL_StopOnError(s) ==
    IF Len(s.queue) > 0
    THEN LET item == Head(s.queue)
             s1 == [s EXCEPT !.queue = Tail(@)]
         IN  IF EvalError(item.command)
             THEN WriteLineError(s1, item.command, ErrorString(item.command))
             ELSE LET s2 == IF ~EvalUndefined(item.command)
                            THEN WriteLine(s1, item.command, Stringify(item.command), 0)
                            ELSE s1
                  IN  Then(Emit(s2, Ev("set_value", NoPlugin, s2.exec, item.command, "", item.promise)),
                           ProcessREPL_StopOnError)
    ELSE s

\* _evalQueue.pop() moves the front of the deque by one slot.  A thread inside
\* emplace holds the slot it is going to write as a distance from the front,
\* so the pop makes that distance one less; two or more slots before the
\* front are not told apart.
PopFront(threads) ==
    [t \in DOMAIN threads |->
        IF threads[t].pc = "emplace" /\ threads[t].pos > -2
        THEN [threads[t] EXCEPT !.pos = @ - 1]
        ELSE threads[t]]

RECURSIVE ProcessREPL(_)
\* ScriptEngine::ProcessREPL
ProcessREPL(s) ==
    IF Len(s.queue) > 0
    THEN LET item == Head(s.queue)
             s1 == [s EXCEPT !.queue = Tail(@), !.threads = PopFront(@)]
             s2 == IF EvalError(item.command)
                   THEN WriteLineError(s1, item.command, ErrorString(item.command))
                   ELSE IF ~EvalUndefined(item.command)
                   THEN WriteLine(s1, item.command, Stringify(item.command), 0)
                   ELSE s1
         IN  Then(Emit(s2, Ev("set_value", NoPlugin, s2.exec, item.command, "", item.promise)),
                  ProcessREPL)
    ELSE s

\* Update that drains the REPL queue only once plugins have been loaded
Update_DrainWhenLoaded(s, elapsed, order) ==
    LET s1 == IF ~s.initialised THEN Initialise(s) ELSE s
    IN  IF s1.loaded
        THEN LET s2 == IF ~s1.started
                       THEN StartPlugins(s1)
                       ELSE IF Greater32(elapsed, U32(0, HotReloadInterval))
                            THEN Emit(AutoReloadPlugins(s1, order),
                                      Ev("SetLastHotReloadCheckTick", NoPlugin, NoPlugin, "", "", 0))
                            ELSE s1
             IN  Then(s2, LAMBDA v : IF v.escaped THEN v ELSE ProcessREPL(v))
        ELSE s1

\* _lastHotReloadCheckTick = tick
SetLastHotReloadCheckTick(s) ==
    [Emit(s, Ev("SetLastHotReloadCheckTick", NoPlugin, NoPlugin, "", "", 0))
        EXCEPT !.lastCheck = s.tick]

\* the call of ProcessREPL and the first test of its loop (line 289)
ProcessREPL_Enter(s) ==
    [s EXCEPT !.drain = [pc |-> IF Len(s.queue) > 0 THEN "body" ELSE "idle",
                         queued |-> Len(s.queue),
                         evaluated |-> 0]]

\* one iteration of the loop of ProcessREPL (lines 291-307) and the test that
\* follows it (line 289)
ProcessREPL_Body(s) ==
    LET item == Head(s.queue)
        s1 == [s EXCEPT !.queue = Tail(@), !.threads = PopFront(@)]
        s2 == IF EvalError(item.command)
              THEN WriteLineError(s1, item.command, ErrorString(item.command))
              ELSE IF ~EvalUndefined(item.command)
              THEN WriteLine(s1, item.command, Stringify(item.command), 0)
              ELSE s1
        s3 == Emit(s2, Ev("set_value", NoPlugin, s2.exec, item.command, "", item.promise))
    IN  [s3 EXCEPT !.drain = [pc |-> IF Len(s3.queue) > 0 THEN "body" ELSE "idle",
                              queued |-> s.drain.queued,
                              evaluated |-> s.drain.evaluated + 1]]

\* Update whose hot-reload check is not in the else branch of the start
Update_ReloadAfterStart(s, elapsed, order) ==
    LET s1 == IF ~s.initialised THEN Initialise(s) ELSE s
        s2 == IF s1.loaded
              THEN LET s3 == IF ~s1.started THEN StartPlugins(s1) ELSE s1
                   IN  IF Greater32(elapsed, U32(0, HotReloadInterval))
                       THEN SetLastHotReloadCheckTick(AutoReloadPlugins(s3, order))
                       ELSE s3
              ELSE s1
    IN  Then(s2, LAMBDA v : IF v.escaped THEN v ELSE ProcessREPL(v))

\* ScriptEngine::Update.  elapsed is tick - _lastHotReloadCheckTick, the time
\* the clock shows to have passed since the last hot-reload check.
Update(s, elapsed, order) ==
    LET s1 == IF ~s.initialised THEN Initialise(s) ELSE s
        s2 == IF s1.loaded
              THEN IF ~s1.started
                   THEN StartPlugins(s1)
                   ELSE IF Greater32(elapsed, U32(0, HotReloadInterval))
                        THEN SetLastHotReloadCheckTick(AutoReloadPlugins(s1, order))
                        ELSE s1
              ELSE s1
    IN  Then(s2, LAMBDA v : IF v.escaped THEN v ELSE ProcessREPL(v))

\* tick - _lastHotReloadCheckTick, in 32-bit unsigned arithmetic
Elapsed(tick, last) == Sub32(tick, last)

\* the identity of a new promise: one that no queued item holds
FreshPromise(queue) ==
    CHOOSE n \in 1..(Len(queue) + 1) : \A k \in 1..Len(queue) : queue[k].promise # n

\* ScriptEngine::Eval
Eval(s, command) ==
    [s EXCEPT !.queue = Append(@, [promise |-> FreshPromise(s.queue), command |-> command])]

\* a promise that neither a queued item nor a thread inside Eval holds
NewPromise(s) ==
    CHOOSE n \in 1..(Len(s.queue) + Cardinality(Threads) + 1) :
        /\ \A k \in 1..Len(s.queue) : s.queue[k].promise # n
        /\ \A t \in Threads : s.threads[t].promise # n

\* Eval on thread t up to the point where emplace has read where the deque
\* ends (lines 313-315): std::deque::emplace_back reads _M_finish, constructs
\* the element in that slot and then stores _M_finish + 1, with no lock held
EvalBegin(s, t, command) ==
    [s EXCEPT !.threads[t] =
        [pc |-> "emplace", command |-> command, promise |-> NewPromise(s),
         pos |-> Len(s.queue)]]

\* the rest of Eval on thread t (lines 315-316): the element is constructed in
\* the slot read before and the end of the deque is set right behind it.  A
\* slot before the front leaves the deque empty.  The event records how many
\* items the queue held when the slot was written.
EvalEnd(s, t) ==
    LET th == s.threads[t]
        item == [promise |-> th.promise, command |-> th.command]
        s1 == Emit(s, Ev("emplace", NoPlugin, s.exec, th.command, "", Len(s.queue)))
    IN  [s1 EXCEPT !.queue = IF th.pos < 0 THEN <<>> ELSE Append(SubSeq(@, 1, th.pos), item),
                   !.threads[t] = Idle]

\* the OnFileChanged callback installed by SetupHotReloading
OnFileChanged(s, path) == [s EXCEPT !.changed = @ \cup {path}, !.notified[path] = @ + 1]

\* the FileWatcher calls OnFileChanged(path) on its thread
Watch_Begin(s, path) == [s EXCEPT !.watching = [pc |-> "waiting", path |-> path]]

\* the callback, line 177: the guard is constructed
Watch_Lock(s) == [s EXCEPT !.mutex = lock_guard("watcher"), !.watching.pc = "inserting"]

\* the callback, lines 178-179: emplace and the end of the guard's scope
Watch_Emplace(s) ==
    LET s1 == Access(s, "emplace", "watcher", 0)
    IN  Unlock([OnFileChanged(s1, s.watching.path) EXCEPT !.watching = NotWatching], "watcher")

RECURSIVE HookEngine_Call(_, _, _)
\* HookEngine::Call: deliver an event to its subscribers in subscription order
HookEngine_Call(s, event, k) ==
    IF k > Len(s.hooks) THEN s
    ELSE LET h == s.hooks[k]
         IN  HookEngine_Call(
                IF h.event = event THEN Emit(s, Ev("Event", h.owner, h.owner, event, "", 0)) ELSE s,
                event, k + 1)

\* the orders in which a set of paths can be iterated
Orders(S) ==
    {o \in UNION {[1..n -> S] : n \in {Cardinality(S)}} :
        \A i, j \in 1..Cardinality(S) : i # j => o[i] # o[j]}

Op(name, path, id) == [name |-> name, path |-> path, id |-> id]

\* the engine after construction
Constructed ==
    /\ _plugins = <<>>
    /\ nextPluginId = 1
    /\ rejected = {}
    /\ hooks = <<>>
    /\ _execInfo = NoPlugin
    /\ _initialised = FALSE
    /\ _pluginsLoaded = FALSE
    /\ _pluginsStarted = FALSE
    /\ _pluginFileWatcher = FALSE
    /\ _changedPluginFiles = {}
    /\ notified = [p \in Paths |-> 0]
    /\ _changedPluginFilesMutex = "free"
    /\ reloadCall = NotReloading
    /\ watcherCall = NotWatching
    /\ _lastHotReloadCheckTick = U32(0, 0)
    /\ replCall = NotDraining
    /\ _evalQueue = <<>>
    /\ evalThreads = [t \in Threads |-> Idle]
    /\ escaped = FALSE
    /\ trace = <<>>
    /\ lastOp = Op("Init", "", 0)

Init ==
    /\ Constructed
    /\ userScripts = Scripts
    /\ now = U32(0, 0)

\* the same engine, with a user who writes a plugin that fails half way
\* through its start
InitHalfStart ==
    /\ Constructed
    /\ userScripts = {Good, HalfStart}
    /\ now = U32(0, 0)

\* the values of the clock at which the engine is observed: around the
\* hot-reload interval, and around the wrap of the 32-bit tick counter
TickValues ==
    {U32(0, 0), U32(0, 1), U32(0, 1000), U32(0, 1001), U32(0, 2001), U32(1, 0),
     U32(Word - 1, Word - 1001), U32(Word - 1, Word - 1000), U32(Word - 1, Word - 1)}

\* the engine constructed at any time of the clock, with a user who writes
\* well-formed plugins
InitTimer ==
    /\ Constructed
    /\ userScripts = {Good}
    /\ now \in TickValues

\* The files are read when an operation loads them: an operation takes as its
\* input what the files it reads hold at that time.
WithFiles(s, files) == [s EXCEPT !.disk = files]

\* the engine with the directory listing the scanner will return
WithScan(s, listing) == [s EXCEPT !.scan = listing]

\* the plugin directory of the user: two plugin files
PluginFiles == <<"a.js", "b.js">>

\* what the environment answers to LoadPlugins
LoadEnvs ==
    {[dir |-> FALSE, hot |-> FALSE, fails |-> FALSE]}
    \cup {[dir |-> TRUE, hot |-> FALSE, fails |-> FALSE]}
    \cup {[dir |-> TRUE, hot |-> TRUE, fails |-> f] : f \in BOOLEAN}

DoLoadPlugins ==
    \E env \in LoadEnvs :
    \E files \in [IF env.dir THEN Paths ELSE {} -> userScripts] :
        /\ nextPluginId + Len(PluginFiles) <= MaxPluginObjects + 1
        /\ Commit(LoadPlugins(WithScan(WithFiles(Cur, files), PluginFiles),
                               env.dir, env.hot, env.fails),
                  Op("LoadPlugins", IF env.dir THEN "dir" ELSE "", 0))

DoLoadPlugin ==
    \E path \in Paths, script \in userScripts :
        /\ nextPluginId <= MaxPluginObjects
        /\ Commit(LoadPlugin(WithFiles(Cur, [p \in {path} |-> script]), path),
                  Op("LoadPlugin", path, nextPluginId))

DoStartPlugins == Commit(StartPlugins(Cur), Op("StartPlugins", "", 0))

DoStopPlugin ==
    \E i \in 1..Len(_plugins) :
        Commit(StopPlugin(Cur, i), Op("StopPlugin", _plugins[i].path, _plugins[i].id))

DoStopPlugins == Commit(StopPlugins(Cur), Op("StopPlugins", "", 0))

DoUnloadPlugins == Commit(UnloadPlugins(Cur), Op("UnloadPlugins", "", 0))

\* the files a reload reads: the changed paths that have a registered plugin
ReadOnReload == {p \in _changedPluginFiles : FindPlugin(_plugins, p) # 0}

\* the iteration orders of the change set that a reload can tell apart
ReloadOrders ==
    IF Cardinality(ReadOnReload) < 2
    THEN {CHOOSE o \in Orders(_changedPluginFiles) : TRUE}
    ELSE Orders(_changedPluginFiles)

\* what an Update call reads: the clock and, when it reloads, the changed files
UpdateInputs ==
    {[elapsed |-> e, order |-> CHOOSE o \in Orders(_changedPluginFiles) : TRUE, files |-> <<>>] :
        e \in {U32(0, HotReloadInterval)}}
    \cup {[elapsed |-> U32(0, HotReloadInterval + 1), order |-> o, files |-> f] :
            o \in ReloadOrders, f \in [ReadOnReload -> userScripts]}

DoUpdate ==
    \E in \in UpdateInputs :
    \E r \in {Update(WithFiles(Cur, in.files), in.elapsed, in.order)} :
        Commit(r, Op("Update", "", 0))

DoEval ==
    \E command \in Commands :
        /\ Len(_evalQueue) < MaxQueue
        /\ Commit(Eval(Cur, command), Op("Eval", command, 0))

\* a thread enters Eval
DoEvalBegin ==
    \E t \in Threads, command \in Commands :
        /\ evalThreads[t].pc = "idle"
        /\ Len(_evalQueue) < MaxQueue
        /\ Commit(EvalBegin(Cur, t, command), Op("EvalBegin", command, 0))

\* a thread leaves Eval.  The executions followed are those in which the slot
\* it writes is at most one before the front and not beyond the end of the
\* deque; in the others the thread has not yet taken this step.
DoEvalEnd ==
    \E t \in Threads :
        /\ evalThreads[t].pc = "emplace"
        /\ evalThreads[t].pos >= -1
        /\ evalThreads[t].pos <= Len(_evalQueue)
        /\ Commit(EvalEnd(Cur, t), Op("EvalEnd", evalThreads[t].command, evalThreads[t].promise))

\* no further change is reported once the hook engine holds MaxHooks
\* subscriptions
HooksBelowBound == Len(hooks) < MaxHooks

\* the watcher thread reports a change of path
DoOnFileChanged ==
    \E path \in Paths :
        /\ _pluginFileWatcher
        /\ notified[path] < MaxNotifications
        /\ HooksBelowBound
        /\ Commit(OnFileChanged(Cur, path), Op("OnFileChanged", path, 0))

\* the changes arrive one at a time, each before the next reload
DoOnFirstFileChanged ==
    /\ _changedPluginFiles = {}
    /\ DoOnFileChanged

\* the simulation raises an event
DoDispatch == Commit(HookEngine_Call(Cur, "tick", 1), Op("Dispatch", "tick", 0))

Next ==
    \/ DoLoadPlugins
    \/ DoLoadPlugin
    \/ DoStartPlugins
    \/ DoStopPlugin
    \/ DoStopPlugins
    \/ DoUnloadPlugins
    \/ DoUpdate
    \/ DoOnFirstFileChanged
    \/ DoDispatch

Spec == Init /\ [][Next]_vars

\* hot reload: the watcher reports any number of changes, of either file,
\* between two Update calls
NextReload ==
    \/ DoLoadPlugins
    \/ DoUpdate
    \/ DoOnFileChanged
    \/ DoDispatch

SpecReload == Init /\ [][NextReload]_vars

SpecHalfStart == InitHalfStart /\ [][NextReload]_vars

\* a call of Initialise by the host
DoInitialise == Commit(Initialise(Cur), Op("Initialise", "", 0))

\* the operations that call Initialise, and Initialise itself
NextInitialise == DoInitialise \/ DoLoadPlugins \/ DoUpdate

SpecInitialise == Init /\ [][NextInitialise]_vars

\* the file has a directory named node_modules above it
InNodeModules(path) ==
    \E k \in 1..(Len(Characters[path]) - 1) : Characters[path][k] = "node_modules"

RECURSIVE Listings(_, _)
\* the sequences of at most n different files of a directory
Listings(files, n) ==
    IF n = 0 THEN {<<>>}
    ELSE LET shorter == Listings(files, n - 1)
         IN  shorter \cup {Append(l, f) : l \in shorter, f \in files}

NoRepeat(l) == \A i, j \in 1..Len(l) : l[i] = l[j] => i = j

\* what the scanner can return: files of one directory, each once
ScanResults ==
    {l \in Listings(SlashFiles, MaxFiles) \cup Listings(BackslashFiles, MaxFiles) :
        Len(l) > 0 /\ NoRepeat(l)}

\* LoadPlugins, called while no plugins are loaded, on a plugin directory of
\* any shape; a file below node_modules is a well-formed script
DoLoadPluginsScan ==
    /\ ~_pluginsLoaded
    /\ \E listing \in {l \in ScanResults :
                     nextPluginId + Len(SelectSeq(l, ShouldLoadScript)) <= MaxPluginObjects + 1} :
       \E hot \in BOOLEAN :
       \E own \in [{listing[k] : k \in {j \in 1..Len(listing) : ~InNodeModules(listing[j])}}
                    -> userScripts] :
        LET files == [p \in {listing[k] : k \in 1..Len(listing)} |->
                        IF p \in DOMAIN own THEN own[p] ELSE Good]
        IN  Commit(LoadPlugins(WithScan(WithFiles(Cur, files), listing), TRUE, hot, FALSE),
                   Op("LoadPlugins", "dir", 0))

\* LoadPlugins on a plugin directory that holds the one file a.js, called in
\* any state of the engine
DoLoadPluginsOneFile ==
    \E env \in LoadEnvs :
    \E files \in [IF env.dir THEN {"a.js"} ELSE {} -> userScripts] :
        /\ nextPluginId <= MaxPluginObjects
        /\ Commit(LoadPlugins(WithScan(WithFiles(Cur, files), <<"a.js">>),
                               env.dir, env.hot, env.fails),
                  Op("LoadPlugins", IF env.dir THEN "dir" ELSE "", 0))

NextLoadAgain ==
    DoLoadPluginsOneFile \/ DoUnloadPlugins \/ DoUpdate \/ DoOnFileChanged

SpecLoadAgain == Init /\ [][NextLoadAgain]_vars

\* time passes: the clock shows another value
DoTick ==
    \E tick \in TickValues \ {now} :
    \E r \in {[Cur EXCEPT !.tick = tick]} :
        Commit(r, Op("Tick", "", 0))

\* Update at the time the clock shows
DoUpdateAt ==
    \E order \in ReloadOrders, files \in [ReadOnReload -> userScripts] :
    \E r \in {Update(WithFiles(Cur, files), Elapsed(now, _lastHotReloadCheckTick), order)} :
        Commit(r, Op("Update", "", 0))

NextTimer == DoLoadPluginsOneFile \/ DoTick \/ DoUpdateAt \/ DoOnFileChanged

SpecTimer == InitTimer /\ [][NextTimer]_vars

\* the simulation thread is not inside AutoReloadPlugins
SimulationIdle == reloadCall.pc = "idle"

\* Update calls AutoReloadPlugins, which tests the size of the change set
DoReloadSize ==
    /\ SimulationIdle
    /\ _pluginsLoaded /\ _pluginsStarted
    /\ \E seen \in SizeOutcomes(Cur) :
          \E r \in {AutoReload_Size(Cur, seen)} :
              Commit(r, Op("ReloadSize", "", seen))

DoReloadLock ==
    /\ reloadCall.pc = "lock"
    /\ _changedPluginFilesMutex = "free"
    /\ \E order \in Orders(_changedPluginFiles) :
          \E r \in {AutoReload_Lock(Cur, order)} :
              Commit(r, Op("ReloadLock", "", 0))

DoReloadNext ==
    /\ reloadCall.pc = "loop"
    /\ reloadCall.todo # <<>>
    /\ \E files \in [{p \in {Head(reloadCall.todo)} : FindPlugin(_plugins, p) # 0}
                        -> userScripts] :
          \E r \in {AutoReload_Next(WithFiles(Cur, files))} :
              Commit(r, Op("ReloadNext", Head(reloadCall.todo), 0))

DoReloadClear ==
    /\ reloadCall.pc = "loop"
    /\ reloadCall.todo = <<>>
    /\ \E r \in {AutoReload_Clear(Cur)} :
        Commit(r, Op("ReloadClear", "", 0))

\* the watcher thread sees a change of path
DoWatchBegin ==
    \E path \in Paths :
        /\ _pluginFileWatcher
        /\ watcherCall.pc = "idle"
        /\ notified[path] < MaxNotifications
        /\ HooksBelowBound
        /\ \E r \in {Watch_Begin(Cur, path)} :
            Commit(r, Op("WatchBegin", path, 0))

DoWatchLock ==
    /\ watcherCall.pc = "waiting"
    /\ _changedPluginFilesMutex = "free"
    /\ \E r \in {Watch_Lock(Cur)} :
        Commit(r, Op("WatchLock", watcherCall.path, 0))

DoWatchEmplace ==
    /\ watcherCall.pc = "inserting"
    /\ \E r \in {Watch_Emplace(Cur)} :
        Commit(r, Op("WatchEmplace", watcherCall.path, 0))

\* LoadPlugins and StartPlugins on the simulation thread, the reload and the
\* watcher's callback step by step
NextWatcher ==
    \/ (SimulationIdle /\ DoLoadPlugins)
    \/ (SimulationIdle /\ DoStartPlugins)
    \/ DoReloadSize
    \/ DoReloadLock
    \/ DoReloadNext
    \/ DoReloadClear
    \/ DoWatchBegin
    \/ DoWatchLock
    \/ DoWatchEmplace

SpecWatcher == Init /\ [][NextWatcher]_vars

\* LoadPlugins in any state of the engine while no file changes
NextLoadAgainLive == DoLoadPluginsOneFile \/ DoUnloadPlugins \/ DoUpdate

\* with the game loop calling Update once per tick for ever
SpecLoadAgainLive == Init /\ [][NextLoadAgainLive]_vars /\ WF_vars(DoUpdate)

NextScan == DoLoadPluginsScan \/ DoStartPlugins \/ DoUnloadPlugins

SpecScan == Init /\ [][NextScan]_vars

\* Update calls ProcessREPL
DoDrainEnter ==
    /\ replCall.pc = "idle"
    /\ \E r \in {ProcessREPL_Enter(Cur)} :
        Commit(r, Op("DrainEnter", "", 0))

DoDrainBody ==
    /\ replCall.pc = "body"
    /\ \E r \in {ProcessREPL_Body(Cur)} :
        Commit(r, Op("DrainBody", Head(_evalQueue).command, 0))

\* a call of Eval on another thread, between two iterations of the drain or
\* outside it
DoEvalBesideDrain ==
    /\ replCall.evaluated <= MaxQueue
    /\ DoEval

\* the drain of the REPL queue step by step, with Eval called on other threads
NextDrain == DoDrainEnter \/ DoDrainBody \/ DoEvalBesideDrain

SpecDrain == Init /\ [][NextDrain]_vars

\* the REPL bridge: snippets are submitted while the engine loads and updates
NextRepl ==
    \/ DoLoadPlugins
    \/ DoUpdate
    \/ DoEval

SpecRepl == Init /\ [][NextRepl]_vars

\* the REPL bridge with Eval called on other threads: the steps of Eval
\* interleave with each other and with the simulation thread's Update
NextRace ==
    \/ DoEvalBegin
    \/ DoEvalEnd
    \/ DoUpdate

SpecRace == Init /\ [][NextRace]_vars

\* the same, with the game loop calling Update once per tick for ever
SpecReplLive == SpecRepl /\ WF_vars(DoUpdate)

\* ------------------------------------------------------------ properties
RegistryIds == {_plugins[i].id : i \in 1..Len(_plugins)}

HasEvent(tr, op) == \E k \in 1..Len(tr) : tr[k].op = op

Count(tr, Test(_)) == Len(SelectSeq(tr, Test))

IsThrow(e) == e.op = "Threw"
IsPluginError(e) == e.op = "WriteLineError" /\ e.msg = What(e)

PublicOps == {"LoadPlugins", "StartPlugins", "StopPlugins", "UnloadPlugins", "Update"}

\* C1: a Plugin object that LoadPlugin rejected for its MinApiVersion is not in
\* the registry, holds no hook subscription, and no operation ever calls its
\* Start or Stop or delivers an event to it.
C1_RejectedNeverRuns ==
    \A id \in rejected :
        /\ id \notin RegistryIds
        /\ SubscriptionsOf(hooks, id) = <<>>
        /\ \A k \in 1..Len(trace) :
              trace[k].op \in {"Start", "Stop", "Event"} => trace[k].plugin # id

\* a plugin was rejected, and later an event was delivered to the others
C1_Witness ==
    /\ rejected # {}
    /\ lastOp.name = "Dispatch"
    /\ HasEvent(trace, "Event")

\* C2: no plugin in the registry declares a minimum API version above the host's.
C2_RegistryWithinHostVersion ==
    \A i \in 1..Len(_plugins) : _plugins[i].script.minApi <= OPENRCT2_PLUGIN_API_VERSION

\* C3: no exception of plugin code leaves an operation; each one shows as one
\* error line on the console.
C3_NoExceptionEscapes ==
    /\ ~escaped
    /\ lastOp.name \in PublicOps => Count(trace, IsThrow) = Count(trace, IsPluginError)

\* an Update in which plugin code threw
C3_Witness ==
    /\ lastOp.name = "Update"
    /\ HasEvent(trace, "Threw")
    /\ ~escaped

\* C4: when Load throws in LoadPlugin, an error line is written and the
\* registry, with the lifecycle state of its plugins, and the hook
\* subscriptions are what they were before the call.
C4_FailedLoadLeavesRegistry ==
    [][(lastOp'.name = "LoadPlugin" /\ HasEvent(trace', "Threw"))
        => /\ _plugins' = _plugins
           /\ hooks' = hooks
           /\ \E k \in 1..Len(trace') : IsPluginError(trace'[k])]_vars

\* a load threw while a started plugin was registered
C4_Witness ==
    /\ lastOp.name = "LoadPlugin"
    /\ HasEvent(trace, "Threw")
    /\ \E i \in 1..Len(_plugins) : HasStarted(_plugins[i])

IdsOf(ps) == [k \in 1..Len(ps) |-> ps[k].id]
StartCalls(tr) ==
    LET starts == SelectSeq(tr, LAMBDA e : e.op = "Start")
    IN  [k \in 1..Len(starts) |-> starts[k].plugin]

\* C5: StartPlugins calls Start on every plugin that was not started, in
\* registry order, whether or not an earlier Start threw; every exception is
\* reported, and the "plugins started" flag is set.
C5_StartContinuesAfterThrow ==
    [][lastOp'.name = "StartPlugins"
        => /\ StartCalls(trace') = IdsOf(SelectSeq(_plugins, LAMBDA p : ~HasStarted(p)))
           /\ Count(trace', IsThrow) = Count(trace', IsPluginError)
           /\ _pluginsStarted']_vars

\* the first plugin's Start threw and the second plugin was started after it
C5_Witness ==
    /\ lastOp.name = "StartPlugins"
    /\ Len(_plugins) >= 2
    /\ \E j, k \in 1..Len(trace) :
          /\ j < k
          /\ trace[j].op = "Threw" /\ trace[j].plugin = _plugins[1].id
          /\ trace[k].op = "Start" /\ trace[k].plugin = _plugins[2].id
    /\ HasStarted(_plugins[2])

\* C6: after StartPlugins, a plugin whose Start threw is not started, and the
\* "plugins started" flag is set.
C6_FailedStartStaysLoaded ==
    lastOp.name = "StartPlugins" =>
        /\ _pluginsStarted
        /\ \A k \in 1..Len(trace) : \A i \in 1..Len(_plugins) :
              (trace[k].op = "Threw" /\ trace[k].plugin = _plugins[i].id)
                  => ~HasStarted(_plugins[i])

\* StartPlugins in which a Start threw
C6_Witness ==
    /\ lastOp.name = "StartPlugins"
    /\ _pluginsStarted
    /\ \E k \in 1..Len(trace) : \E i \in 1..Len(_plugins) :
          trace[k].op = "Threw" /\ trace[k].plugin = _plugins[i].id /\ ~HasStarted(_plugins[i])

\* C7: after StopPlugin, StopPlugins or UnloadPlugins has stopped a started
\* plugin, the hook engine holds no subscription of that plugin, whether or
\* not its Stop threw.
C7_StoppedPluginHasNoHooks ==
    lastOp.name \in {"StopPlugin", "StopPlugins", "UnloadPlugins"} =>
        \A k \in 1..Len(trace) :
            trace[k].op = "Stop" => SubscriptionsOf(hooks, trace[k].plugin) = <<>>

\* StopPlugin on a plugin that held a subscription and whose Stop threw
C7_Witness ==
    /\ lastOp.name = "StopPlugin"
    /\ HasEvent(trace, "Threw")
    /\ \E k \in 1..Len(trace) :
          trace[k].op = "UnsubscribeAll" /\ trace[k].plugin = lastOp.id /\ trace[k].n > 0

\* C8: whenever a plugin's Stop is called, the two events before it are the
\* removal of all its subscriptions and then the notification of the observer;
\* Stop runs in the plugin's scope, and from the removal on the plugin holds no
\* subscription an event could be delivered to.
C8_StopOrder ==
    \A k \in 1..Len(trace) :
        trace[k].op = "Stop" =>
            /\ k >= 3
            /\ trace[k - 2].op = "UnsubscribeAll" /\ trace[k - 2].plugin = trace[k].plugin
            /\ trace[k - 1].op = "PluginStopped" /\ trace[k - 1].plugin = trace[k].plugin
            /\ trace[k - 1].n = 0
            /\ trace[k].n = 0
            /\ trace[k].scope = trace[k].plugin
            /\ \A j \in (k - 1)..Len(trace) :
                  ~(trace[j].op = "Event" /\ trace[j].plugin = trace[k].plugin)

\* StopPlugin on a started plugin that held a subscription
C8_Witness ==
    /\ lastOp.name = "StopPlugin"
    /\ Len(trace) >= 3
    /\ trace[1].op = "UnsubscribeAll" /\ trace[1].n > 0
    /\ trace[3].op = "Stop"

\* C9: StopPlugin on a plugin that is not started changes nothing and calls nothing.
C9_StopUnstartedIsNoOp ==
    [][\A i \in 1..Len(_plugins) :
        (lastOp'.name = "StopPlugin" /\ lastOp'.id = _plugins[i].id /\ ~HasStarted(_plugins[i]))
            => /\ trace' = <<>>
               /\ UNCHANGED <<_plugins, nextPluginId, rejected, hooks, _execInfo,
                              _initialised, _pluginsLoaded, _pluginsStarted,
                              _pluginFileWatcher, _changedPluginFiles, _evalQueue>>]_vars

\* StopPlugin was called on a plugin that is not started while another
\* plugin holds a subscription
C9_Witness ==
    /\ lastOp.name = "StopPlugin"
    /\ trace = <<>>
    /\ hooks # <<>>
    /\ \E i \in 1..Len(_plugins) : _plugins[i].id = lastOp.id /\ ~HasStarted(_plugins[i])

IsReplEvent(e) == e.op = "set_value" \/ (IsConsoleLine(e) /\ e.who \in Commands)
IsSetValue(e) == e.op = "set_value"

\* C10: one Update call evaluates the queued snippets in the order they were
\* enqueued; the output of a snippet, if it has any, is written right before
\* its own completion signal, so after the signals and outputs of all earlier
\* snippets and before those of all later ones.
C10_ReplFifo ==
    [][lastOp'.name = "Update"
        => LET R == SelectSeq(trace', IsReplEvent)
               S == SelectSeq(R, IsSetValue)
           IN  /\ Len(S) = Len(_evalQueue)
               /\ \A k \in 1..Len(S) :
                     /\ S[k].n = _evalQueue[k].promise
                     /\ S[k].who = _evalQueue[k].command
               /\ \A j \in 1..Len(R) :
                     IsConsoleLine(R[j]) =>
                         /\ j < Len(R)
                         /\ IsSetValue(R[j + 1])
                         /\ R[j + 1].who = R[j].who
               /\ \A j \in 1..Len(R) :
                     (IsSetValue(R[j]) /\ ~EvalUndefined(R[j].who)) =>
                         /\ j > 1
                         /\ R[j - 1].who = R[j].who
                         /\ R[j - 1].op = IF EvalError(R[j].who) THEN "WriteLineError" ELSE "WriteLine"
               /\ _evalQueue' = <<>>]_vars

\* an Update that evaluated a failing snippet and then one with a result
C10_Witness ==
    /\ lastOp.name = "Update"
    /\ \E i, j \in 1..Len(trace) :
          /\ i + 1 < j
          /\ trace[i].op = "WriteLineError" /\ trace[i].who = "throw 1"
          /\ trace[i + 1].op = "set_value" /\ trace[i + 1].who = "throw 1"
          /\ trace[j].op = "WriteLine" /\ trace[j].who = "1+1"
          /\ j < Len(trace) /\ trace[j + 1].op = "set_value" /\ trace[j + 1].who = "1+1"

\* C11: when a queued snippet fails to evaluate, the Update call writes its
\* error text as an error line, fulfils its completion signal right after,
\* and goes on to fulfil the signals of all snippets queued behind it.
C11_EvalErrorContinues ==
    [][lastOp'.name = "Update"
        => \A k \in 1..Len(_evalQueue) :
              EvalError(_evalQueue[k].command) =>
                 \E j \in 1..(Len(trace') - 1) :
                    /\ trace'[j].op = "WriteLineError"
                    /\ trace'[j].msg = ErrorString(_evalQueue[k].command)
                    /\ IsSetValue(trace'[j + 1])
                    /\ trace'[j + 1].n = _evalQueue[k].promise
                    /\ \A m \in (k + 1)..Len(_evalQueue) :
                          \E i \in (j + 2)..Len(trace') :
                             IsSetValue(trace'[i]) /\ trace'[i].n = _evalQueue[m].promise]_vars

\* an Update whose first snippet failed and whose second printed an object
C11_Witness ==
    /\ lastOp.name = "Update"
    /\ Len(trace) >= 4
    /\ \E j \in 1..(Len(trace) - 3) :
          /\ trace[j].op = "WriteLineError" /\ trace[j].who = "throw 1"
          /\ IsSetValue(trace[j + 1])
          /\ trace[j + 2].op = "WriteLine" /\ trace[j + 2].msg = "{}"
          /\ IsSetValue(trace[j + 3])

Pending(n) == \E k \in 1..Len(_evalQueue) : _evalQueue[k].promise = n

FulfilledOnce(n) ==
    /\ lastOp.name = "Update"
    /\ Len(SelectSeq(trace, LAMBDA e : IsSetValue(e) /\ e.n = n)) = 1
    /\ ~Pending(n)

\* C12: while Update keeps being called, every queued snippet leads to an
\* Update that fulfils its completion signal exactly once and removes it from
\* the queue, whatever the lifecycle state (not initialised, nothing loaded,
\* loaded, started).
C12_EvalEventuallyFulfilled ==
    \A n \in 1..MaxQueue : Pending(n) ~> FulfilledOnce(n)

\* a snippet was fulfilled by an Update while no plugins were loaded
C12_Witness ==
    /\ FulfilledOnce(1)
    /\ ~_pluginsLoaded
    /\ _plugins = <<>>

\* C13: every Eval that has returned has put its snippet at the tail of the
\* queue and kept every snippet that was queued when it wrote, so that no
\* snippet is lost, whatever the interleaving of the producers with each other
\* and with the drain.
C13_NoSnippetLost ==
    lastOp.name = "EvalEnd" =>
        /\ Len(_evalQueue) = trace[1].n + 1
        /\ _evalQueue[Len(_evalQueue)].promise = lastOp.id

\* the calls of one kind that an operation made on the plugins of one path
CallsOn(tr, op, path) ==
    Len(SelectSeq(tr, LAMBDA e :
        /\ e.op = op
        /\ \E i \in 1..Len(_plugins) : _plugins[i].id = e.plugin /\ _plugins[i].path = path))

\* the Update ran AutoReloadPlugins
Reloaded(tr) == HasEvent(tr, "SetLastHotReloadCheckTick")

\* C14: however many notifications named a path before the reload, the reload
\* takes the path from the set once and makes one reload attempt on its
\* plugin: one Load, at most one Stop before it and one Start after it; a path
\* that was not notified gets none; afterwards the set is empty.
C14_OneReloadPerPath ==
    [][(lastOp'.name = "Update" /\ Reloaded(trace'))
        => /\ \A p \in Paths :
               LET hit == p \in _changedPluginFiles /\ FindPlugin(_plugins, p) # 0
               IN  /\ (p \in _changedPluginFiles) = (notified[p] >= 1)
                   /\ Len(SelectSeq(trace', LAMBDA e : e.op = "ChangedPath" /\ e.who = p))
                        = IF p \in _changedPluginFiles THEN 1 ELSE 0
                   /\ CallsOn(trace', "Load", p) = IF hit THEN 1 ELSE 0
                   /\ CallsOn(trace', "Stop", p) <= CallsOn(trace', "Load", p)
                   /\ CallsOn(trace', "Start", p) <= CallsOn(trace', "Load", p)
           /\ _changedPluginFiles' = {}]_vars

\* a reload of a path that had been notified more than once
C14_Witness ==
    /\ lastOp.name = "Update"
    /\ \E k \in 1..Len(trace) : trace[k].op = "ChangedPath" /\ trace[k].n >= 2
    /\ \E k \in 1..Len(trace) : trace[k].op = "WriteLine" /\ trace[k].msg = "Reloaded"
    /\ _changedPluginFiles = {}

\* the calls of op made on the Plugin object id during the last operation
CallsOnPlugin(tr, op, id) == Len(SelectSeq(tr, LAMBDA e : e.op = op /\ e.plugin = id))

\* C15: after an Update that ran AutoReloadPlugins, a plugin whose reload got
\* as far as Load holds exactly the subscriptions its new Start made: those of
\* its main function when Start ran, none when Load threw; no subscription of
\* an earlier Start is left.
C15_ReloadIsStopLoadStart ==
    (lastOp.name = "Update" /\ Reloaded(trace))
        => \A i \in 1..Len(_plugins) :
            LET p == _plugins[i]
            IN  CallsOnPlugin(trace, "Load", p.id) = 1
                    => Len(SubscriptionsOf(hooks, p.id))
                         = IF CallsOnPlugin(trace, "Start", p.id) = 1
                           THEN Len(p.script.hooks)
                           ELSE 0

\* the call of op on the Plugin object id threw
ThrewIn(tr, op, id) ==
    \E k \in 1..(Len(tr) - 1) :
        /\ tr[k].op = op /\ tr[k].plugin = id
        /\ tr[k + 1].op = "Threw" /\ tr[k + 1].plugin = id

\* C16: in an Update that ran AutoReloadPlugins, every changed path with a
\* registered plugin gets its Load, and its Start unless its own Load threw,
\* whatever happened to the paths before it; every exception is followed by an
\* error line on the console, none leaves the operation, and the change set
\* is empty afterwards.
C16_BatchFailureIsolated ==
    [][(lastOp'.name = "Update" /\ Reloaded(trace'))
        => /\ \A p \in _changedPluginFiles :
                LET i == FindPlugin(_plugins, p)
                IN  i # 0 =>
                        /\ CallsOnPlugin(trace', "Load", _plugins[i].id) = 1
                        /\ CallsOnPlugin(trace', "Start", _plugins[i].id)
                             = IF ThrewIn(trace', "Load", _plugins[i].id) THEN 0 ELSE 1
           /\ \A k \in 1..Len(trace') :
                trace'[k].op = "Threw"
                    => k < Len(trace') /\ trace'[k + 1].op = "WriteLineError"
           /\ ~escaped'
           /\ _changedPluginFiles' = {}]_vars

\* a batch of two changed plugins in which the reload of the first failed and
\* the second was reloaded
C16_Witness ==
    /\ lastOp.name = "Update"
    /\ Reloaded(trace)
    /\ \E j, k, l \in 1..Len(trace) :
        /\ j < k /\ k < l
        /\ trace[j].op = "Threw"
        /\ trace[k].op = "ChangedPath"
        /\ trace[l].op = "WriteLine" /\ trace[l].msg = "Reloaded"
    /\ _changedPluginFiles = {}

\* C17: a call of Initialise on an initialised engine leaves the initialised,
\* loaded and started flags and the registry as they were and registers no
\* capability global.
C17_InitialiseSkippedWhenInitialised ==
    [][(lastOp'.name = "Initialise" /\ _initialised)
        => /\ UNCHANGED <<_initialised, _pluginsLoaded, _pluginsStarted, _plugins>>
           /\ ~HasEvent(trace', "RegisterGlobals")]_vars

\* the Plugin objects of the registry that have started, in registry order
StartedIds(plugins) ==
    LET sel == SelectSeq(plugins, HasStarted)
    IN  [k \in 1..Len(sel) |-> sel[k].id]

\* the Plugin objects whose Stop was called, in the order of the calls
StoppedIds(tr) ==
    LET sel == SelectSeq(tr, LAMBDA e : e.op = "Stop")
    IN  [k \in 1..Len(sel) |-> sel[k].plugin]

\* C18: UnloadPlugins calls Stop on exactly the started plugins, in registry
\* order, and leaves none of them a subscription; it empties the registry,
\* clears the loaded and started flags, keeps the initialised flag and
\* registers no global. An Update that follows it starts no plugin, and
\* initialises only an engine that had never been initialised.
C18_UnloadResetsPluginState ==
    [][/\ lastOp'.name = "UnloadPlugins"
            => /\ StoppedIds(trace') = StartedIds(_plugins)
               /\ \A i \in 1..Len(_plugins) :
                    HasStarted(_plugins[i]) => SubscriptionsOf(hooks', _plugins[i].id) = <<>>
               /\ _plugins' = <<>>
               /\ ~_pluginsLoaded' /\ ~_pluginsStarted'
               /\ _initialised' = _initialised
               /\ ~HasEvent(trace', "RegisterGlobals")
       /\ (lastOp.name = "UnloadPlugins" /\ lastOp'.name = "Update")
            => /\ ~HasEvent(trace', "Start")
               /\ HasEvent(trace', "RegisterGlobals") = ~_initialised
               /\ _plugins' = <<>>]_vars

\* UnloadPlugins on a registry of two started plugins, both holding a
\* subscription
C18_Witness ==
    /\ lastOp.name = "UnloadPlugins"
    /\ Len(StoppedIds(trace)) = 2
    /\ \A k \in 1..Len(trace) : trace[k].op = "UnsubscribeAll" => trace[k].n > 0
    /\ Count(trace, LAMBDA e : e.op = "WriteLine" /\ e.msg = "Unloaded") = 2
    /\ _initialised

\* an Update right after an UnloadPlugins of an initialised engine
C18_UpdateAfterUnload ==
    /\ lastOp.name = "Update"
    /\ _initialised /\ ~_pluginsLoaded /\ ~_pluginsStarted
    /\ _plugins = <<>>
    /\ nextPluginId > 1

\* the positions in tr of the scanner results whose file was loaded without
\* an exception and asks for no newer API than the host's
Accepted(tr) ==
    SelectSeq([k \in 1..Len(tr) |-> k], LAMBDA k :
        /\ tr[k].op = "ScanNext" /\ ~InNodeModules(tr[k].who)
        /\ k < Len(tr) /\ tr[k + 1].op = "Load"
        /\ tr[k + 1].n \in 1..OPENRCT2_PLUGIN_API_VERSION)

IsLoadedLine(e) == e.op = "WriteLine" /\ e.msg = "Loaded"
IsRejectionLine(e) == e.op = "WriteLine" /\ e.msg = "Requires newer API version: v"

\* C19 as stated, for the plugins after StartPlugins: every registered plugin
\* is Started.
C19_AllStartedAfterStartPlugins ==
    lastOp.name = "StartPlugins" => \A i \in 1..Len(_plugins) : HasStarted(_plugins[i])

\* C19 (amended): LoadPlugins calls Load on exactly the discovered files that
\* are not below a node_modules directory and appends to the registry, in
\* discovery order, those whose Load did not throw and whose MinApiVersion is
\* at most the host's; the console gets one "Loaded" line per plugin
\* registered and, right after the Load of each file asking for a newer API,
\* one rejection line naming that version. A StartPlugins that follows calls
\* Start once on each registered plugin, and each is Started unless its Start
\* threw.
C19_LoadPluginsRegistersAccepted ==
    [][/\ lastOp'.name = "LoadPlugins"
            => LET tr == trace'
                   acc == Accepted(tr)
                   old == Len(_plugins)
               IN  /\ \A k \in 1..Len(tr) :
                        tr[k].op = "ScanNext"
                            => (~InNodeModules(tr[k].who)) = (k < Len(tr) /\ tr[k + 1].op = "Load")
                   /\ \A k \in 1..Len(tr) :
                        tr[k].op = "Load" => k > 1 /\ tr[k - 1].op = "ScanNext"
                   /\ Len(_plugins') = old + Len(acc)
                   /\ SubSeq(_plugins', 1, old) = _plugins
                   /\ \A m \in 1..Len(acc) :
                        /\ _plugins'[old + m].path = tr[acc[m]].who
                        /\ _plugins'[old + m].id = tr[acc[m] + 1].plugin
                        /\ _plugins'[old + m].script.minApi = tr[acc[m] + 1].n
                   /\ Count(tr, IsLoadedLine) = Len(acc)
                   /\ \A k \in 1..Len(tr) :
                        (tr[k].op = "Load" /\ tr[k].n > OPENRCT2_PLUGIN_API_VERSION)
                            => IsRejectionLine(tr[k + 1]) /\ tr[k + 1].n = tr[k].n
                   /\ Count(tr, IsRejectionLine)
                        = Count(tr, LAMBDA e : e.op = "Load" /\ e.n > OPENRCT2_PLUGIN_API_VERSION)
       /\ (lastOp.name = "LoadPlugins" /\ lastOp'.name = "StartPlugins")
            => \A i \in 1..Len(_plugins) :
                LET id == _plugins[i].id
                IN  /\ CallsOnPlugin(trace', "Start", id) = IF HasStarted(_plugins[i]) THEN 0 ELSE 1
                    /\ HasStarted(_plugins'[i])
                         = (HasStarted(_plugins[i]) \/ ~ThrewIn(trace', "Start", id))]_vars

\* LoadPlugins on a Windows directory with a file below node_modules before a
\* plugin file asking for a newer API: the registry stays empty, with one
\* rejection line
C19_Witness ==
    /\ lastOp.name = "LoadPlugins"
    /\ Len(trace) >= 3
    /\ \E k \in 1..(Len(trace) - 1) :
        /\ trace[k].op = "ScanNext" /\ trace[k].who = "node_modules\\x.js"
        /\ trace[k + 1].op = "ScanNext" /\ trace[k + 1].who = "w.js"
    /\ Count(trace, IsRejectionLine) = 1
    /\ _plugins = <<>>

\* C20: a LoadPlugins that finds no plugin directory adds nothing to the
\* registry (it stays empty on an engine that had loaded nothing), calls no
\* plugin, writes nothing to the console or to standard output, lets no
\* exception out, leaves the hot-reload watcher as it was (not started), and
\* sets the "plugins loaded" flag.
C20_NoDirectoryLoadsNothing ==
    [][(lastOp'.name = "LoadPlugins" /\ lastOp'.path = "")
        => /\ _plugins' = _plugins
           /\ nextPluginId' = nextPluginId
           /\ \A k \in 1..Len(trace') : trace'[k].op = "RegisterGlobals"
           /\ HasEvent(trace', "RegisterGlobals") = ~_initialised
           /\ ~escaped'
           /\ _pluginFileWatcher' = _pluginFileWatcher
           /\ _changedPluginFiles' = _changedPluginFiles
           /\ _pluginsLoaded']_vars

\* the first LoadPlugins of an engine, with no plugin directory
C20_Witness ==
    /\ lastOp.name = "LoadPlugins" /\ lastOp.path = ""
    /\ HasEvent(trace, "RegisterGlobals")
    /\ _plugins = <<>>
    /\ nextPluginId = 1
    /\ ~_pluginFileWatcher
    /\ _pluginsLoaded

\* C21: no two plugins of the registry have the same source path.
C21_PathIsUniqueKey ==
    \A i, j \in 1..Len(_plugins) : _plugins[i].path = _plugins[j].path => i = j

\* the Plugin object id is registered, has not started, and its main function
\* does not throw
AwaitsStart(id) ==
    \E i \in 1..Len(_plugins) :
        /\ _plugins[i].id = id
        /\ ~HasStarted(_plugins[i])
        /\ ~_plugins[i].script.startThrows

\* the Plugin object id has started, or has left the registry
StartedOrGone(id) ==
    \A i \in 1..Len(_plugins) : _plugins[i].id = id => HasStarted(_plugins[i])

\* C22: with Update called for ever, every registered plugin whose Start does
\* not throw is eventually Started (or unloaded), whenever it was registered.
C22_LoadedEventuallyStarted ==
    \A id \in 1..MaxPluginObjects : AwaitsStart(id) ~> StartedOrGone(id)

\* an Update on an engine whose "plugins started" flag is set and whose only
\* plugin, loaded after the flag was set, has not started
C22_LoadedAfterStartedFlag ==
    /\ lastOp.name = "Update"
    /\ _pluginsLoaded /\ _pluginsStarted
    /\ Len(_plugins) = 1
    /\ AwaitsStart(_plugins[1].id)

\* C23: every Load, Start and Stop of the last operation ran in the scope of
\* the plugin it was called on, an exception left plugin code in that same
\* scope, and once the operation has returned the scope names no plugin.
C23_ScopeNeverLeaks ==
    /\ _execInfo = NoPlugin
    /\ \A k \in 1..Len(trace) :
        trace[k].op \in {"Load", "Start", "Stop", "Threw"}
            => trace[k].plugin # NoPlugin /\ trace[k].scope = trace[k].plugin

\* an Update whose reload stopped a plugin, loaded it again and caught the
\* exception of its Start
C23_Witness ==
    /\ lastOp.name = "Update"
    /\ \E j, k, l \in 1..Len(trace) :
        /\ j < k /\ k < l /\ l < Len(trace)
        /\ trace[j].op = "Stop" /\ trace[k].op = "Load" /\ trace[l].op = "Start"
        /\ trace[j].plugin = trace[k].plugin /\ trace[k].plugin = trace[l].plugin
        /\ trace[l + 1].op = "Threw"
    /\ _execInfo = NoPlugin

\* C24: no Stop, Load or Start of a plugin runs in a step of the reload loop
\* made while the simulation thread holds the mutex of the change set.
C24_NoPluginCodeUnderMutex ==
    (lastOp.name = "ReloadNext" /\ \E k \in 1..Len(trace) : trace[k].op \in {"Stop", "Load", "Start"})
        => _changedPluginFilesMutex # "simulation"

\* the watcher thread waits for the mutex while a plugin is reloaded
C24_WatcherBlockedByReload ==
    /\ lastOp.name = "ReloadNext"
    /\ HasEvent(trace, "Load")
    /\ watcherCall.pc = "waiting"
    /\ _changedPluginFilesMutex = "simulation"

IsSetAccess(e) == e.op \in {"size", "iterate", "clear", "emplace"}

\* C25: every access to the change set in the last step was made by a thread
\* that held the mutex, and the simulation thread does not read the set while
\* the watcher thread is inside its insert.
C25_SetAccessedUnderMutex ==
    /\ \A k \in 1..Len(trace) : IsSetAccess(trace[k]) => trace[k].who = trace[k].msg
    /\ ~(HasEvent(trace, "size") /\ watcherCall.pc = "inserting")

\* the size of the set is read while the watcher thread is inside its insert
C25_SizeReadDuringInsert ==
    /\ lastOp.name = "ReloadSize"
    /\ watcherCall.pc = "inserting"
    /\ _changedPluginFilesMutex = "watcher"

\* C29: a step of the watcher thread only adds its path to the change set; an
\* AutoReloadPlugins call that returns at the test of the size leaves the set
\* as it is; and the clear removes only paths that the loop of this call has
\* iterated, each after a Load of its registered plugin when it has one.
C29_NoNotificationLost ==
    [][/\ lastOp'.name \in {"WatchBegin", "WatchLock"}
            => _changedPluginFiles' = _changedPluginFiles
       /\ lastOp'.name = "WatchEmplace"
            => _changedPluginFiles' = _changedPluginFiles \cup {watcherCall.path}
       /\ lastOp'.name \in {"ReloadSize", "ReloadLock", "ReloadNext"}
            => _changedPluginFiles' = _changedPluginFiles
       /\ lastOp'.name = "ReloadClear"
            => /\ _changedPluginFiles \subseteq reloadCall.iterated
               /\ _changedPluginFiles \subseteq reloadCall.attempted
               /\ _changedPluginFiles' = {}]_vars

\* the clear of a set of two paths while the watcher thread waits for the
\* mutex with a further notification
C29_Witness ==
    /\ lastOp.name = "ReloadClear"
    /\ \E k \in 1..Len(trace) : trace[k].op = "clear" /\ trace[k].n = 2
    /\ watcherCall.pc = "waiting"
    /\ _changedPluginFiles = {}

\* C26 as stated: with the plugins loaded and started, Update runs
\* AutoReloadPlugins exactly when at least 1000 units have elapsed.
C26_ReloadsAtLeastInterval ==
    [][(lastOp'.name = "Update" /\ _initialised /\ _pluginsLoaded /\ _pluginsStarted)
        => (Reloaded(trace')
                = ~Greater32(U32(0, HotReloadInterval), Elapsed(now, _lastHotReloadCheckTick)))]_vars

\* what Update does instead: with the plugins loaded and started it runs
\* AutoReloadPlugins and sets the timer to the current tick exactly when more
\* than 1000 units have elapsed on the 32-bit clock since the timer was set;
\* otherwise, exactly 1000 elapsed units included, it does neither.
C26_ReloadsAfterInterval ==
    [][(lastOp'.name = "Update" /\ _initialised /\ _pluginsLoaded /\ _pluginsStarted)
        => /\ Reloaded(trace')
                = Greater32(Elapsed(now, _lastHotReloadCheckTick), U32(0, HotReloadInterval))
           /\ _lastHotReloadCheckTick'
                = IF Greater32(Elapsed(now, _lastHotReloadCheckTick), U32(0, HotReloadInterval))
                  THEN now ELSE _lastHotReloadCheckTick
           /\ (~Reloaded(trace')) => _changedPluginFiles' = _changedPluginFiles]_vars

\* an Update exactly 1000 units after the last check, across the wrap of the
\* clock, that left a changed path in the set
C26_NoReloadAtInterval ==
    /\ lastOp.name = "Update"
    /\ _pluginsLoaded /\ _pluginsStarted
    /\ _lastHotReloadCheckTick = U32(Word - 1, Word - 1000)
    /\ now = U32(0, 0)
    /\ ~Reloaded(trace)
    /\ _changedPluginFiles # {}

\* an Update step whose StartPlugins ran to its end
StartPluginsRan == ~_pluginsStarted /\ _pluginsStarted'

\* C27: AutoReloadPlugins runs only in an Update call that found the plugins
\* loaded and the "plugins started" flag set on entry; an Update call that runs
\* StartPlugins does not also run AutoReloadPlugins; an Update call with the
\* plugins not loaded starts no plugin, does not set the flag and does not
\* reload.
C27_NoReloadBeforeStart ==
    [][lastOp'.name = "Update"
        => /\ Reloaded(trace') => (_pluginsLoaded /\ _pluginsStarted)
           /\ (StartPluginsRan \/ (~_pluginsStarted /\ HasEvent(trace', "Start")))
                => (~Reloaded(trace') /\ _lastHotReloadCheckTick' = _lastHotReloadCheckTick)
           /\ ~_pluginsLoaded
                => /\ ~Reloaded(trace')
                   /\ ~HasEvent(trace', "Start")
                   /\ ~StartPluginsRan]_vars

\* an Update that started the plugins although a changed path was pending and
\* more than the interval had elapsed: the path is still pending after it
C27_Witness ==
    /\ lastOp.name = "Update"
    /\ HasEvent(trace, "Start")
    /\ ~Reloaded(trace)
    /\ _pluginsLoaded /\ _pluginsStarted
    /\ _changedPluginFiles # {}
    /\ Greater32(Elapsed(now, _lastHotReloadCheckTick), U32(0, HotReloadInterval))

\* C28: a call of ProcessREPL evaluates at most the snippets that were in the
\* queue when it began.
C28_DrainsOnlyQueuedAtStart == replCall.evaluated <= replCall.queued

\* a drain that is still running after it has evaluated every snippet that was
\* queued when it began
C28_DrainOutlivesItsQueue ==
    /\ replCall.pc = "body"
    /\ replCall.queued > 0
    /\ replCall.evaluated >= replCall.queued

\* the Plugin objects of a registry and their paths, in registry order
Membership(plugins) == [i \in 1..Len(plugins) |-> <<plugins[i].id, plugins[i].path>>]

\* C30: an Update that runs AutoReloadPlugins leaves the registry with the same
\* Plugin objects at the same paths in the same order and constructs no Plugin
\* object; every Stop, Load and Start it calls is on a Plugin object that was
\* registered under a changed path, so a changed path with no registered plugin
\* is passed over.
C30_ReloadKeepsRegistry ==
    [][(lastOp'.name = "Update" /\ Reloaded(trace'))
        => /\ Membership(_plugins') = Membership(_plugins)
           /\ nextPluginId' = nextPluginId
           /\ \A k \in 1..Len(trace') :
                trace'[k].op \in {"Stop", "Load", "Start"}
                    => \E i \in 1..Len(_plugins) :
                            /\ _plugins[i].id = trace'[k].plugin
                            /\ _plugins[i].path \in _changedPluginFiles]_vars

\* a reload of a batch that named a path with no registered plugin and a
\* registered plugin whose Load threw: the plugin is still registered
C30_Witness ==
    /\ lastOp.name = "Update"
    /\ Reloaded(trace)
    /\ \E k \in 1..Len(trace) :
        trace[k].op = "ChangedPath" /\ FindPlugin(_plugins, trace[k].who) = 0
    /\ \E i \in 1..Len(_plugins) : ThrewIn(trace, "Load", _plugins[i].id)

====
